---- MODULE Spec2Model ----
(***************************************************************************)
(* Model of target_postgres/stream_tracker.py: the StreamTracker that      *)
(* delays STATE (checkpoint) messages until the records that preceded      *)
(* them have been written by target.write_batch.                           *)
(*                                                                         *)
(* One action models one public method call, from entry to return or       *)
(* raise.  The collaborators (BufferedSingerStream, target.write_batch,    *)
(* singer.statediff, json, sys.stdout) are modelled by their contract.     *)
(***************************************************************************)
EXTENDS Integers, Sequences, FiniteSets

\* ------------------------------------------------------------------ bounds
\* The input holds at most this many RECORD and STATE lines that the tracker
\* takes in (records accepted, checkpoints enqueued).
MaxMessages == 3

\* The max_watermark_lag values a tracker is built with.
LagArgs == {1}

\* ------------------------------------------------------------ input values
StreamNames == {"cats", "dogs"}

\* A Python value is a record [kind, items]; a dict is the set of its
\* <<key, value>> pairs.
PyNone == [kind |-> "None", items |-> {}]

Dict(items) == [kind |-> "dict", items |-> items]

EmptyDict == Dict({})

\* The 'value' of a STATE line: {}, {"test": "state-1"}, {"test": "state-2"}.
StateValues == {EmptyDict, Dict({<<"test", "state-1">>}), Dict({<<"test", "state-2">>})}

\* Python truthiness of a state blob or None (`if emittable_state:`).
Truthy(v) == v.kind = "dict" /\ v.items # {}

\* `x or {}`.
OrEmptyDict(v) == IF Truthy(v) THEN v ELSE EmptyDict

\* singer.statediff.diff(a, b): the leaf paths at which a and b differ
\* (added, removed or changed), as the set of differing <<path, value>> pairs.
StateDiff(a, b) == (a.items \ b.items) \cup (b.items \ a.items)

\* json.dumps(state) followed by "\n": the line as a sequence of tokens.
JsonDumps(v) ==
    IF v.items = {} THEN <<"{", "}">>
    ELSE LET kv == CHOOSE p \in v.items : TRUE
         IN <<"{", kv[1], ":", kv[2], "}">>

\* json.loads of such a line.
JsonLoads(line) ==
    IF Len(line) = 2 THEN EmptyDict ELSE Dict({<<line[2], line[4]>>})

\* ------------------------------------------------------------------- state
VARIABLES
    emit_states,             \* constructor argument
    max_watermark_lag,       \* constructor argument
    streams,                 \* stream name -> records held by its buffer
    stream_add_watermarks,   \* stream name -> counter of its latest record
    stream_flush_watermarks, \* stream name -> counter of its latest flushed record
    streams_added_to,        \* stream names that have seen records
    state_queue,             \* sequence of [state, watermark]
    message_counter,
    last_emitted_state,
    stdout,                  \* the lines written to sys.stdout
    written,                 \* record numbers handed to a write_batch that returned
    arrived,                 \* the state blobs enqueued so far, in arrival order
    call,                    \* the most recent call: what it did and how it ended
    state_tracker            \* the older StreamTracker (state_tracker.py) run
                             \* beside this one, as the record of its fields

vars == <<emit_states, max_watermark_lag, streams, stream_add_watermarks,
          stream_flush_watermarks, streams_added_to, state_queue,
          message_counter, last_emitted_state, stdout, written, arrived, call,
          state_tracker>>

tracker == <<streams, stream_add_watermarks, stream_flush_watermarks,
             streams_added_to, state_queue, message_counter,
             last_emitted_state>>

config == <<emit_states, max_watermark_lag>>

\* ----------------------------------------------------------------- helpers
\* Another RECORD or STATE line may still come.
MoreInput == message_counter + Len(arrived) < MaxMessages

NoStreams == [s \in {} |-> 0]

\* d[k] = v for a dict d (a function on its keys).
DictSet(d, k, v) == [x \in DOMAIN d \cup {k} |-> IF x = k THEN v ELSE d[x]]

\* d.get(k, default)
DictGet(d, k, default) == IF k \in DOMAIN d THEN d[k] ELSE default

\* min(values, default=0)
MinOrZero(values) ==
    IF values = {} THEN 0 ELSE CHOOSE m \in values : \A x \in values : m <= x

\* A BufferedSingerStream, by the contract the tracker relies on: the buffer
\* is the set of the records (their message_counter values) it holds.
NewBuffer == {}

\* buffered_stream.add_record_message(line_data) for record number n.
add_record_message(buffer, n) == buffer \cup {n}

\* buffered_stream.flush_buffer()
flush_buffer(buffer) == {}

\* target.write_batch(stream_buffer), returning: the records the target has
\* been handed, after it was handed those of the buffer.
write_batch(handed, buffer) == handed \cup buffer

\* The record of a call that did nothing observable but return or raise.
NoCall ==
    [op |-> "init", stream |-> "", raised |-> "", force |-> FALSE,
     lag_forced |-> FALSE, write_ok |-> {}, write_failed |-> {},
     popped |-> <<>>, emittable_state |-> PyNone, lines |-> <<>>]

\* Mutant: the minimum is taken over every registered stream, as the older
\* tracker does, without the streams_added_to filter.
_safe_flush_threshold_all_registered(flush_watermarks, added_to) ==
    MinOrZero({flush_watermarks[stream] : stream \in DOMAIN flush_watermarks})

\* _safe_flush_threshold(), over the given flush watermarks and streams_added_to.
_safe_flush_threshold(flush_watermarks, added_to) ==
    LET valid_flush_watermarks ==
            {flush_watermarks[stream] :
                stream \in {s \in DOMAIN flush_watermarks : s \in added_to}}
    IN MinOrZero(valid_flush_watermarks)

\* Mutant: the loop stops at an entry whose watermark equals the threshold.
RECURSIVE PopWhile_strict(_, _, _, _)
PopWhile_strict(queue, force, safe_flush_threshold, emittable_state) ==
    IF Len(queue) > 0 /\ (force \/ queue[1].watermark < safe_flush_threshold)
    THEN PopWhile_strict(Tail(queue), force, safe_flush_threshold, queue[1].state)
    ELSE [state_queue |-> queue, emittable_state |-> emittable_state]

\* The while loop of _emit_safe_queued_states: popleft while the front entry
\* may go, remembering the state popped last.
RECURSIVE PopWhile(_, _, _, _)
PopWhile(queue, force, safe_flush_threshold, emittable_state) ==
    IF Len(queue) > 0 /\ (force \/ queue[1].watermark <= safe_flush_threshold)
    THEN PopWhile(Tail(queue), force, safe_flush_threshold, queue[1].state)
    ELSE [state_queue |-> queue, emittable_state |-> emittable_state]

\* Whether _emit_safe_queued_states goes on to emit what the loop left it.
ShouldEmit(emittable_state) == Truthy(emittable_state)

\* Mutant: the line is written without comparing with last_emitted_state.
EmittedLines_no_dedup(emittable_state, last_emitted) ==
    <<JsonDumps(emittable_state)>>

\* The lines _emit_safe_queued_states writes for the state it emits.
EmittedLines(emittable_state, last_emitted) ==
    IF StateDiff(emittable_state, OrEmptyDict(last_emitted)) # {}
    THEN <<JsonDumps(emittable_state)>>
    ELSE <<>>

\* Mutant: the state emitted is the one popped first, not the one popped last.
_emit_first_popped(queue, flush_watermarks, force) ==
    LET safe_flush_threshold == _safe_flush_threshold(flush_watermarks, streams_added_to)
        loop == PopWhile(queue, force, safe_flush_threshold, PyNone)
        emittable_state ==
            IF Len(loop.state_queue) < Len(queue) THEN queue[1].state ELSE PyNone
        emit == ShouldEmit(emittable_state)
    IN [state_queue |-> loop.state_queue,
        popped |-> SubSeq(queue, 1, Len(queue) - Len(loop.state_queue)),
        emittable_state |-> emittable_state,
        lines |-> IF emit THEN EmittedLines(emittable_state, last_emitted_state)
                  ELSE <<>>,
        last_emitted_state |-> IF emit THEN emittable_state ELSE last_emitted_state]

\* _emit_safe_queued_states(force) on the given queue and flush watermarks:
\* the queue and last_emitted_state it leaves, the lines it writes, and (for
\* the call record) the entries it popped and its local emittable_state.
_emit_safe_queued_states(queue, flush_watermarks, force) ==
    LET safe_flush_threshold == _safe_flush_threshold(flush_watermarks, streams_added_to)
        loop == PopWhile(queue, force, safe_flush_threshold, PyNone)
        emittable_state == loop.emittable_state
        emit == ShouldEmit(emittable_state)
    IN [state_queue |-> loop.state_queue,
        popped |-> SubSeq(queue, 1, Len(queue) - Len(loop.state_queue)),
        emittable_state |-> emittable_state,
        lines |-> IF emit THEN EmittedLines(emittable_state, last_emitted_state)
                  ELSE <<>>,
        last_emitted_state |-> IF emit THEN emittable_state ELSE last_emitted_state]

\* Mutant: the flush watermark is set to the size of the batch written.
_write_batch_stores_batch_size(done, failing) ==
    [streams |-> [s \in DOMAIN streams |->
                    IF s \in done THEN flush_buffer(streams[s]) ELSE streams[s]],
     stream_flush_watermarks |->
        [s \in DOMAIN stream_flush_watermarks |->
            IF s \in done THEN Cardinality(streams[s])
            ELSE stream_flush_watermarks[s]],
     written |-> written \cup UNION {write_batch(written, streams[s]) : s \in done}]

\* Mutant: the flush watermark is set to message_counter, not to the stream's
\* add watermark.
_write_batch_stores_message_counter(done, failing) ==
    [streams |-> [s \in DOMAIN streams |->
                    IF s \in done THEN flush_buffer(streams[s]) ELSE streams[s]],
     stream_flush_watermarks |->
        [s \in DOMAIN stream_flush_watermarks |->
            IF s \in done THEN message_counter
            ELSE stream_flush_watermarks[s]],
     written |-> written \cup UNION {write_batch(written, streams[s]) : s \in done}]

\* Mutant: the flush watermark is updated before write_batch is called, so it
\* is advanced for the stream whose write_batch raises too.
_update_watermarks_before_write(done, failing) ==
    [streams |-> [s \in DOMAIN streams |->
                    IF s \in done THEN flush_buffer(streams[s]) ELSE streams[s]],
     stream_flush_watermarks |->
        [s \in DOMAIN stream_flush_watermarks |->
            IF s \in done \cup failing THEN DictGet(stream_add_watermarks, s, 0)
            ELSE stream_flush_watermarks[s]],
     written |-> written \cup UNION {write_batch(written, streams[s]) : s \in done}]

\* _write_batch_and_update_watermarks(stream) for each stream of `done`, whose
\* write_batch returns, and then for the stream of `failing` (if any), whose
\* write_batch raises before anything is updated: the buffers, flush
\* watermarks and written records this leaves.
_write_batch_and_update_watermarks(done, failing) ==
    [streams |-> [s \in DOMAIN streams |->
                    IF s \in done THEN flush_buffer(streams[s]) ELSE streams[s]],
     stream_flush_watermarks |->
        [s \in DOMAIN stream_flush_watermarks |->
            IF s \in done THEN DictGet(stream_add_watermarks, s, 0)
            ELSE stream_flush_watermarks[s]],
     written |-> written \cup UNION {write_batch(written, streams[s]) : s \in done}]

\* ------------------------------------ the older tracker (state_tracker.py)
\* state_tracker.py's StreamTracker after __init__; its state_queue holds
\* <<state, message_counter>> tuples, and stdout is what it has written.
older__init__ ==
    [streams |-> NoStreams,
     stream_add_watermarks |-> NoStreams,
     stream_flush_watermarks |-> NoStreams,
     state_queue |-> <<>>,
     message_counter |-> 0,
     last_emitted_state |-> PyNone,
     stdout |-> <<>>]

\* Mutant: the least add watermark is taken as what has been flushed.
all_added_watermark(t) ==
    MinOrZero({t.stream_add_watermarks[stream] : stream \in DOMAIN t.stream_add_watermarks})

\* all_flushed_watermark in the older _emit_safe_queued_states:
\* min(self.stream_flush_watermarks.values(), default=0).
all_flushed_watermark(t) ==
    MinOrZero({t.stream_flush_watermarks[stream] :
                  stream \in DOMAIN t.stream_flush_watermarks})

\* The while loop of the older _emit_safe_queued_states.
RECURSIVE older_PopWhile(_, _, _, _)
older_PopWhile(queue, force, flushed_watermark, emittable_state) ==
    IF Len(queue) > 0 /\ (force \/ queue[1][2] <= flushed_watermark)
    THEN older_PopWhile(Tail(queue), force, flushed_watermark, queue[1][1])
    ELSE [state_queue |-> queue, emittable_state |-> emittable_state]

\* The older _emit_safe_queued_states(force) on tracker t.
older_emit_safe_queued_states(t, force) ==
    LET loop == older_PopWhile(t.state_queue, force, all_flushed_watermark(t), PyNone)
        emittable_state == loop.emittable_state
    IN IF Truthy(emittable_state)
       THEN [t EXCEPT !.state_queue = loop.state_queue,
                      !.stdout = @ \o EmittedLines(emittable_state, t.last_emitted_state),
                      !.last_emitted_state = emittable_state]
       ELSE [t EXCEPT !.state_queue = loop.state_queue]

\* The older register_stream(stream, buffered_stream); `same` as for
\* register_stream.
older_register_stream(t, stream, same) ==
    [t EXCEPT !.streams = DictSet(@, stream,
                                  IF same THEN t.streams[stream] ELSE NewBuffer),
              !.stream_add_watermarks = DictSet(@, stream, 0),
              !.stream_flush_watermarks = DictSet(@, stream, 0)]

\* The older handle_record_message(stream, line_data); for a stream that is
\* not registered it raises and leaves t as it is.
older_handle_record_message(t, stream) ==
    IF stream \notin DOMAIN t.streams
    THEN t
    ELSE [t EXCEPT !.message_counter = @ + 1,
                   !.stream_add_watermarks = DictSet(@, stream, t.message_counter + 1),
                   !.streams = [@ EXCEPT ![stream] =
                                   add_record_message(@, t.message_counter + 1)]]

\* The older handle_state_message(value) of a tracker built with emit.
older_handle_state_message(t, emit, value) ==
    IF emit
    THEN older_emit_safe_queued_states(
             [t EXCEPT !.state_queue = Append(@, <<value, t.message_counter>>)],
             FALSE)
    ELSE t

\* The older flush_streams(force), where buffer_full is the set of streams
\* whose buffer reports buffer_full, write_batch returns for the streams of
\* `done` and raises for the stream of `failing` (if any), which ends the call
\* before the pass.
older_flush_streams(t, force, buffer_full, done, failing) ==
    LET flushed ==
            [t EXCEPT !.streams =
                        [s \in DOMAIN @ |->
                            IF s \in done /\ (force \/ s \in buffer_full)
                            THEN flush_buffer(@[s]) ELSE @[s]],
                      !.stream_flush_watermarks =
                        [s \in DOMAIN @ |->
                            IF s \in done /\ (force \/ s \in buffer_full)
                            THEN t.stream_add_watermarks[s] ELSE @[s]]]
    IN IF failing # {} THEN flushed
       ELSE older_emit_safe_queued_states(flushed, force)

\* __init__
Init ==
    /\ emit_states \in BOOLEAN
    /\ max_watermark_lag \in LagArgs
    /\ streams = NoStreams
    /\ stream_add_watermarks = NoStreams
    /\ stream_flush_watermarks = NoStreams
    /\ streams_added_to = {}
    /\ state_queue = <<>>
    /\ message_counter = 0
    /\ last_emitted_state = PyNone
    /\ stdout = <<>>
    /\ written = {}
    /\ arrived = <<>>
    /\ call = NoCall
    /\ state_tracker = older__init__

\* Mutant: registering resets the add watermark too, as the older tracker does.
register_stream_resets_add_watermark(stream, same) ==
    /\ same => stream \in DOMAIN streams
    /\ streams' = DictSet(streams, stream,
                          IF same THEN streams[stream] ELSE NewBuffer)
    /\ stream_add_watermarks' = DictSet(stream_add_watermarks, stream, 0)
    /\ stream_flush_watermarks' = DictSet(stream_flush_watermarks, stream, 0)
    /\ call' = [NoCall EXCEPT !.op = "register_stream", !.stream = stream]
    /\ UNCHANGED <<streams_added_to, state_queue, message_counter,
                   last_emitted_state, stdout, written, arrived, config>>

\* register_stream(stream, buffered_stream); `same` says the caller passes the
\* BufferedSingerStream object already registered under this name, otherwise
\* a newly built, empty one.
register_stream(stream, same) ==
    /\ same => stream \in DOMAIN streams
    /\ streams' = DictSet(streams, stream,
                          IF same THEN streams[stream] ELSE NewBuffer)
    /\ stream_flush_watermarks' = DictSet(stream_flush_watermarks, stream, 0)
    /\ call' = [NoCall EXCEPT !.op = "register_stream", !.stream = stream]
    /\ UNCHANGED <<stream_add_watermarks, streams_added_to, state_queue,
                   message_counter, last_emitted_state, stdout, written, arrived, config>>

\* Mutant: the counter is incremented before the stream is looked up.
handle_record_message_counts_first(stream) ==
    /\ MoreInput
    /\ message_counter' = message_counter + 1
    /\ IF stream \notin DOMAIN streams
       THEN /\ call' = [NoCall EXCEPT !.op = "handle_record_message",
                                      !.stream = stream, !.raised = "TargetError"]
            /\ UNCHANGED <<streams, stream_add_watermarks, streams_added_to>>
       ELSE /\ streams_added_to' = streams_added_to \cup {stream}
            /\ stream_add_watermarks' =
                   DictSet(stream_add_watermarks, stream, message_counter')
            /\ streams' = [streams EXCEPT
                            ![stream] = add_record_message(@, message_counter')]
            /\ call' = [NoCall EXCEPT !.op = "handle_record_message",
                                      !.stream = stream]
    /\ UNCHANGED <<stream_flush_watermarks, state_queue, last_emitted_state,
                   stdout, written, arrived, config>>

\* handle_record_message(stream, line_data)
handle_record_message(stream) ==
    IF stream \notin DOMAIN streams
    THEN /\ call' = [NoCall EXCEPT !.op = "handle_record_message",
                                   !.stream = stream, !.raised = "TargetError"]
         /\ UNCHANGED <<tracker, stdout, written, arrived, config>>
    ELSE /\ MoreInput
         /\ message_counter' = message_counter + 1
         /\ streams_added_to' = streams_added_to \cup {stream}
         /\ stream_add_watermarks' =
                DictSet(stream_add_watermarks, stream, message_counter')
         /\ streams' = [streams EXCEPT
                            ![stream] = add_record_message(@, message_counter')]
         /\ call' = [NoCall EXCEPT !.op = "handle_record_message", !.stream = stream]
         /\ UNCHANGED <<stream_flush_watermarks, state_queue, last_emitted_state,
                        stdout, written, arrived, config>>

\* Mutant: the checkpoint is put at the front of the queue (appendleft).
appendleft_and_emit(value) ==
    /\ MoreInput
    /\ LET appended == <<[state |-> value, watermark |-> message_counter]>>
                            \o state_queue
           pass == _emit_safe_queued_states(appended, stream_flush_watermarks, FALSE)
       IN /\ state_queue' = pass.state_queue
          /\ last_emitted_state' = pass.last_emitted_state
          /\ stdout' = stdout \o pass.lines
          /\ call' = [NoCall EXCEPT !.op = "handle_state_message",
                                    !.popped = pass.popped,
                                    !.emittable_state = pass.emittable_state,
                                    !.lines = pass.lines]
    /\ arrived' = Append(arrived, value)
    /\ UNCHANGED <<streams, stream_add_watermarks, stream_flush_watermarks,
                   streams_added_to, message_counter, written, config>>

\* The body of handle_state_message under `if self.emit_states:`.
append_and_emit(value) ==
    /\ MoreInput
    /\ LET appended == Append(state_queue,
                              [state |-> value, watermark |-> message_counter])
           pass == _emit_safe_queued_states(appended, stream_flush_watermarks, FALSE)
       IN /\ state_queue' = pass.state_queue
          /\ last_emitted_state' = pass.last_emitted_state
          /\ stdout' = stdout \o pass.lines
          /\ call' = [NoCall EXCEPT !.op = "handle_state_message",
                                    !.popped = pass.popped,
                                    !.emittable_state = pass.emittable_state,
                                    !.lines = pass.lines]
    /\ arrived' = Append(arrived, value)
    /\ UNCHANGED <<streams, stream_add_watermarks, stream_flush_watermarks,
                   streams_added_to, message_counter, written, config>>

\* Mutant: emit_states is not consulted.
handle_state_message_always(value) == append_and_emit(value)

\* handle_state_message(line_data), line_data['value'] = value
handle_state_message(value) ==
    IF emit_states
    THEN append_and_emit(value)
    ELSE /\ call' = [NoCall EXCEPT !.op = "handle_state_message"]
         /\ UNCHANGED <<tracker, stdout, written, arrived, config>>

\* flush_stream(stream); write_ok says whether target.write_batch returns.
flush_stream(stream, write_ok) ==
    IF stream \notin DOMAIN streams
    THEN /\ write_ok
         /\ call' = [NoCall EXCEPT !.op = "flush_stream", !.stream = stream,
                                   !.raised = "KeyError"]
         /\ UNCHANGED <<tracker, stdout, written, arrived, config>>
    ELSE IF ~write_ok
    THEN LET flushed == _write_batch_and_update_watermarks({}, {stream})
         IN /\ streams' = flushed.streams
            /\ stream_flush_watermarks' = flushed.stream_flush_watermarks
            /\ written' = flushed.written
            /\ call' = [NoCall EXCEPT !.op = "flush_stream", !.stream = stream,
                                      !.write_failed = {stream},
                                      !.raised = "WriteError"]
            /\ UNCHANGED <<stream_add_watermarks, streams_added_to, state_queue,
                           message_counter, last_emitted_state, stdout, arrived,
                           config>>
    ELSE LET flushed == _write_batch_and_update_watermarks({stream}, {})
             pass == _emit_safe_queued_states(state_queue,
                                              flushed.stream_flush_watermarks, FALSE)
         IN /\ streams' = flushed.streams
            /\ stream_flush_watermarks' = flushed.stream_flush_watermarks
            /\ written' = flushed.written
            /\ state_queue' = pass.state_queue
            /\ last_emitted_state' = pass.last_emitted_state
            /\ stdout' = stdout \o pass.lines
            /\ call' = [NoCall EXCEPT !.op = "flush_stream", !.stream = stream,
                                      !.write_ok = {stream},
                                      !.popped = pass.popped,
                                      !.emittable_state = pass.emittable_state,
                                      !.lines = pass.lines]
            /\ UNCHANGED <<stream_add_watermarks, streams_added_to,
                           message_counter, arrived, config>>

\* Mutant: the lag guard fires one message later.
LagGuard_off_by_one ==
    /\ Len(state_queue) > 0
    /\ message_counter - _safe_flush_threshold(stream_flush_watermarks, streams_added_to)
          > max_watermark_lag + 1

\* Whether flush_streams_if_required finds the watermark too far behind.
LagGuard ==
    /\ Len(state_queue) > 0
    /\ message_counter - _safe_flush_threshold(stream_flush_watermarks, streams_added_to)
          > max_watermark_lag

\* Mutant: no lag guard, as in the older tracker's flush_streams.
StreamsToFlush_no_lag_guard(force, buffer_full) ==
    IF force THEN DOMAIN streams ELSE buffer_full

\* The streams flush_streams_if_required(force) sets out to flush, when
\* buffer_full is the set of streams whose buffer reports buffer_full.
StreamsToFlush(force, buffer_full) ==
    IF force \/ LagGuard THEN DOMAIN streams ELSE buffer_full

\* The ways the writes of flush_streams_if_required can go: no write_batch
\* raises and every stream of streams_to_flush is written, or the write_batch
\* of one stream raises after those of some others (the set is iterated in
\* no particular order) returned.
WriteOutcomes(streams_to_flush) ==
    {[done |-> streams_to_flush, failing |-> {}]}
    \cup {[done |-> done, failing |-> {stream}] :
            stream \in streams_to_flush, done \in SUBSET streams_to_flush}

\* flush_streams_if_required(force).  buffer_full: the streams whose buffer
\* reports buffer_full when asked (with force it is not asked: `force or ...`).
flush_streams_if_required(force, buffer_full) ==
    /\ buffer_full \subseteq DOMAIN streams
    /\ force => buffer_full = {}
    /\ \E outcome \in WriteOutcomes(StreamsToFlush(force, buffer_full)) :
        LET flushed == _write_batch_and_update_watermarks(outcome.done, outcome.failing)
            begun == [NoCall EXCEPT !.op = "flush_streams_if_required",
                                    !.force = force,
                                    !.lag_forced = LagGuard,
                                    !.write_ok = outcome.done,
                                    !.write_failed = outcome.failing]
        IN /\ outcome.failing \cap outcome.done = {}
           /\ streams' = flushed.streams
           /\ stream_flush_watermarks' = flushed.stream_flush_watermarks
           /\ written' = flushed.written
           /\ IF outcome.failing # {}
              THEN /\ call' = [begun EXCEPT !.raised = "WriteError"]
                   /\ UNCHANGED <<state_queue, last_emitted_state, stdout>>
              ELSE LET pass == _emit_safe_queued_states(
                                   state_queue, flushed.stream_flush_watermarks,
                                   force \/ LagGuard)
                   IN /\ state_queue' = pass.state_queue
                      /\ last_emitted_state' = pass.last_emitted_state
                      /\ stdout' = stdout \o pass.lines
                      /\ call' = [begun EXCEPT !.popped = pass.popped,
                                               !.emittable_state = pass.emittable_state,
                                               !.lines = pass.lines]
           /\ UNCHANGED <<stream_add_watermarks, streams_added_to, message_counter,
                          arrived, config>>

\* The calls on the tracker of stream_tracker.py, in any order; the older
\* tracker is not called.
Next ==
    \/ \E stream \in StreamNames, same \in BOOLEAN :
          register_stream(stream, same) /\ UNCHANGED state_tracker
    \/ \E stream \in StreamNames :
          handle_record_message(stream) /\ UNCHANGED state_tracker
    \/ \E value \in StateValues :
          handle_state_message(value) /\ UNCHANGED state_tracker
    \/ \E stream \in StreamNames, write_ok \in BOOLEAN :
          flush_stream(stream, write_ok) /\ UNCHANGED state_tracker
    \/ \E force \in BOOLEAN, buffer_full \in SUBSET StreamNames :
          flush_streams_if_required(force, buffer_full) /\ UNCHANGED state_tracker

Spec == Init /\ [][Next]_vars

\* ------------------------------------------------------------------ claims
\* _safe_flush_threshold() in the current state.
Threshold == _safe_flush_threshold(stream_flush_watermarks, streams_added_to)

Last(seq) == seq[Len(seq)]

\* The latest call ran _emit_safe_queued_states (it did not raise before).
PassRan ==
    /\ call.raised = ""
    /\ \/ call.op \in {"flush_stream", "flush_streams_if_required"}
       \/ call.op = "handle_state_message" /\ emit_states

\* The step is a handle_state_message call that enqueued its checkpoint.
StateArrives == call'.op = "handle_state_message" /\ Len(arrived') = Len(arrived) + 1

\* statediff finds no difference between a state and the last emitted one
\* (nothing emitted yet counting as the empty state).
SameAsLastEmitted(state, last_emitted) ==
    StateDiff(state, OrEmptyDict(last_emitted)) = {}

\* C1: whenever a call removes checkpoints from the queue, every record
\* accepted before the one it chooses arrived (record number <= its watermark,
\* which is the largest of those removed) has been handed to a write_batch
\* call that returned.
C1_NoPrematureEmission ==
    call.popped # <<>> =>
        \A n \in 1..Last(call.popped).watermark : n \in written

\* C2: a flush_streams_if_required(force=True) that returns leaves the queue
\* empty, and if the queue was not empty it chooses the checkpoint that
\* arrived last and writes it unless it equals the last emitted state.
C2_ForcedFlushEmitsLatest ==
    [][(call'.op = "flush_streams_if_required" /\ call'.force /\ call'.raised = "")
        => /\ state_queue' = <<>>
           /\ state_queue # <<>> =>
                LET chosen == Last(state_queue).state
                IN /\ call'.emittable_state = chosen
                   /\ stdout' = IF SameAsLastEmitted(chosen, last_emitted_state)
                                THEN stdout
                                ELSE Append(stdout, JsonDumps(chosen))]_vars

\* C3 as claimed: a checkpoint arriving when every stream that has received
\* records has its flush watermark equal to its add watermark is removed from
\* the queue and chosen by the same call, leaving the queue empty.
C3_SafeOnArrival_AllFlushed ==
    [][(StateArrives
        /\ \A s \in streams_added_to :
              stream_flush_watermarks[s] = stream_add_watermarks[s])
        => /\ state_queue' = <<>>
           /\ call'.emittable_state = Last(arrived')]_vars

\* C3 as amended: a checkpoint arriving when every stream that has received
\* records has its flush watermark equal to message_counter (so that at most
\* one stream has received records) is removed from the queue and chosen by
\* the same call, leaving the queue empty.
C3_SafeOnArrival ==
    [][(StateArrives
        /\ \A s \in streams_added_to : stream_flush_watermarks[s] = message_counter)
        => /\ state_queue' = <<>>
           /\ call'.emittable_state = Last(arrived')]_vars

\* A checkpoint arrived after records had been accepted and left the queue
\* in the call that enqueued it.
C3_Witness ==
    /\ call.op = "handle_state_message"
    /\ call.popped # <<>>
    /\ message_counter > 0
    /\ Last(call.popped).watermark = message_counter

\* C4 as claimed: no call makes _safe_flush_threshold() decrease.
C4_ThresholdNeverDecreases == [][Threshold' >= Threshold]_vars

\* The step is the first record of a stream being accepted.
FirstRecordOfStream ==
    /\ call'.op = "handle_record_message"
    /\ call'.raised = ""
    /\ call'.stream \notin streams_added_to

\* The step registers again a stream that has received records.
ReRegistersActiveStream ==
    /\ call'.op = "register_stream"
    /\ call'.stream \in streams_added_to

\* C4 as amended: _safe_flush_threshold() never decreases across
\* handle_state_message, flush_stream, flush_streams_if_required,
\* handle_record_message for a stream that has already received records and
\* register_stream for a stream that has received none; when a stream receives
\* its first record, or a stream that has received records is registered again,
\* it drops to 0.
C4_ThresholdMonotoneExceptNewActivity ==
    [][IF FirstRecordOfStream \/ ReRegistersActiveStream
       THEN Threshold' = 0
       ELSE Threshold' >= Threshold]_vars

\* A flush has raised the threshold above 0 with both streams active.
C4_Witness ==
    /\ call.op \in {"flush_stream", "flush_streams_if_required"}
    /\ Cardinality(streams_added_to) = 2
    /\ Threshold > 0

\* The lag message_counter - _safe_flush_threshold() exceeds max_watermark_lag.
LagExceeded == message_counter - Threshold > max_watermark_lag

\* C5 as claimed: a flush_streams_if_required(force=False) called when the lag
\* exceeds max_watermark_lag invokes write_batch for every registered stream.
C5_EagerFlushWheneverLagging ==
    [][(call'.op = "flush_streams_if_required" /\ ~call'.force /\ LagExceeded)
        => call'.write_ok \cup call'.write_failed = DOMAIN streams]_vars

\* C5 as amended: a flush_streams_if_required(force=False) called when the
\* checkpoint queue is not empty and the lag exceeds max_watermark_lag sets out
\* to flush every registered stream whatever its buffer_full: unless a
\* write_batch raises (which ends the call), write_batch is invoked for every
\* registered stream, every buffer is flushed and the pass that follows is
\* forced, leaving the queue empty.
C5_EagerFlushWhenLaggingWithQueue ==
    [][(call'.op = "flush_streams_if_required" /\ ~call'.force
        /\ state_queue # <<>> /\ LagExceeded)
        => /\ call'.lag_forced
           /\ IF call'.raised = ""
              THEN /\ call'.write_ok = DOMAIN streams
                   /\ \A s \in DOMAIN streams :
                        /\ streams'[s] = {}
                        /\ streams[s] \subseteq written'
                        /\ stream_flush_watermarks'[s] =
                              DictGet(stream_add_watermarks, s, 0)
                   /\ state_queue' = <<>>
              ELSE /\ call'.write_failed # {}
                   /\ call'.write_ok \cup call'.write_failed \subseteq DOMAIN streams]_vars

\* The lag guard fired in an unforced call and both streams were written.
C5_Witness ==
    /\ call.op = "flush_streams_if_required"
    /\ ~call.force
    /\ call.lag_forced
    /\ call.raised = ""
    /\ call.write_ok = StreamNames
    /\ call.popped # <<>>

\* C6: _safe_flush_threshold() is the least flush watermark among the streams
\* that have received a record (0 if there is none), whatever streams are
\* registered besides; and once an emission pass has run, no checkpoint whose
\* watermark is <= the flush watermark of every stream that has received
\* records is left in the queue.
C6_DormantStreamsDoNotBlock ==
    /\ IF streams_added_to = {}
       THEN Threshold = 0
       ELSE /\ \E s \in streams_added_to : Threshold = stream_flush_watermarks[s]
            /\ \A s \in streams_added_to : Threshold <= stream_flush_watermarks[s]
    /\ PassRan =>
         \A i \in 1..Len(state_queue) :
            \E s \in streams_added_to :
                state_queue[i].watermark > stream_flush_watermarks[s]

\* A pass removed a checkpoint that arrived after records, while a registered
\* stream had received none.
C6_Witness ==
    /\ PassRan
    /\ call.popped # <<>>
    /\ Last(call.popped).watermark > 0
    /\ ~call.force /\ ~call.lag_forced
    /\ DOMAIN streams \ streams_added_to # {}

\* C7: when write_batch raises for a stream, the call raises; that stream's
\* flush watermark and buffer are as before; the queue, last_emitted_state and
\* the output are as before; and the flush watermarks that changed are those
\* of streams whose write_batch returned earlier in the call, which were
\* flushed.
C7_WriteFailureLeavesProgress ==
    [][call'.write_failed # {}
        => /\ call'.raised = "WriteError"
           /\ \A s \in call'.write_failed :
                /\ stream_flush_watermarks'[s] = stream_flush_watermarks[s]
                /\ streams'[s] = streams[s]
           /\ state_queue' = state_queue
           /\ stdout' = stdout
           /\ last_emitted_state' = last_emitted_state
           /\ call'.popped = <<>>
           /\ \A s \in DOMAIN streams :
                IF s \in call'.write_ok
                THEN /\ stream_flush_watermarks'[s] =
                           DictGet(stream_add_watermarks, s, 0)
                     /\ streams'[s] = {}
                ELSE /\ stream_flush_watermarks'[s] = stream_flush_watermarks[s]
                     /\ streams'[s] = streams[s]]_vars

\* A write_batch raised after another stream had been written, with a
\* checkpoint queued and records in the failing stream's buffer.
C7_Witness ==
    /\ call.raised = "WriteError"
    /\ call.write_ok # {}
    /\ state_queue # <<>>
    /\ \E s \in call.write_failed :
          streams[s] # {} /\ stream_flush_watermarks[s] < stream_add_watermarks[s]

\* C8: handle_record_message for a stream that is not registered raises
\* TargetError and leaves message_counter, the add and flush watermarks,
\* streams_added_to and the queue as they were; for a registered stream it
\* returns, increments message_counter by one and sets that stream's add
\* watermark to the new value.
C8_UnregisteredStreamRejected ==
    [][call'.op = "handle_record_message"
        => IF call'.stream \notin DOMAIN streams
           THEN /\ call'.raised = "TargetError"
                /\ UNCHANGED <<message_counter, stream_add_watermarks,
                               stream_flush_watermarks, streams_added_to,
                               state_queue>>
           ELSE /\ call'.raised = ""
                /\ message_counter' = message_counter + 1
                /\ stream_add_watermarks'[call'.stream] = message_counter'
                /\ call'.stream \in streams_added_to']_vars

\* A record for an unregistered stream was rejected after records had been
\* accepted and with a checkpoint queued.
C8_Witness ==
    /\ call.op = "handle_record_message"
    /\ call.raised = "TargetError"
    /\ message_counter > 0
    /\ state_queue # <<>>

\* C9: with emit_states false, handle_state_message changes nothing, and the
\* queue stays empty and the output stays empty whatever else is called.
C9_EmissionDisabled ==
    /\ [](~emit_states => state_queue = <<>> /\ stdout = <<>>)
    /\ [][(~emit_states /\ call'.op = "handle_state_message")
            => UNCHANGED <<tracker, stdout, written, arrived, config>>]_vars

\* With emit_states false, a state message was ignored after records had been
\* written.
C9_Witness ==
    /\ ~emit_states
    /\ call.op = "handle_state_message"
    /\ written # {}
    /\ message_counter > Cardinality(written)

\* C10: a call writes at most one line, and only when its pass removed
\* entries; read back, the line is the state of the last entry removed.
C10_OnlyLatestWins ==
    [][/\ Len(stdout') <= Len(stdout) + 1
       /\ SubSeq(stdout', 1, Len(stdout)) = stdout
       /\ Len(stdout') = Len(stdout) + 1
            => /\ call'.popped # <<>>
               /\ JsonLoads(Last(stdout')) = Last(call'.popped).state]_vars

\* A pass removed two entries with different states and wrote a line.
C10_Witness ==
    /\ Len(call.popped) >= 2
    /\ call.popped[1].state # call.popped[2].state
    /\ Truthy(call.popped[1].state)
    /\ call.lines # <<>>
    /\ stdout # <<>>

\* The number of checkpoints that have left the queue.
PoppedCount == Len(arrived) - Len(state_queue)

\* The payload of the checkpoint that left the queue last, which is the one
\* chosen by the latest pass that removed entries (None before any did).
LastChosen == IF PoppedCount = 0 THEN PyNone ELSE arrived[PoppedCount]

\* C11: a pass that removes entries and chooses a payload equal to the one
\* chosen by the previous pass that removed entries writes no line; and no two
\* adjacent lines of the output carry equal payloads.
C11_SequentialDedup ==
    /\ [][(call'.popped # <<>> /\ PoppedCount > 0
           /\ call'.emittable_state = LastChosen)
            => stdout' = stdout]_vars
    /\ [](\A i \in 1..(Len(stdout) - 1) :
            JsonLoads(stdout[i]) # JsonLoads(stdout[i + 1]))

\* A pass chose the non-empty payload that the previous removing pass had
\* chosen and written, and wrote nothing.
C11_Witness ==
    /\ call.popped # <<>>
    /\ PoppedCount > Len(call.popped)
    /\ arrived[PoppedCount - Len(call.popped)] = call.emittable_state
    /\ Truthy(call.emittable_state)
    /\ call.lines = <<>>
    /\ stdout # <<>>

FlushedUpTo ==
    CHOOSE g \in 0..message_counter :
        /\ 1..g \subseteq written
        /\ \A h \in 0..message_counter : 1..h \subseteq written => h <= g

\* The latest call is a flush_streams_if_required(force=True) that returned.
ForcedFlushReturned ==
    call.op = "flush_streams_if_required" /\ call.force /\ call.raised = ""

\* C13 as claimed: _safe_flush_threshold() is the largest sequence number up
\* to which every accepted record has been flushed, and it equals
\* message_counter right after a successful forced flush.
C13_ThresholdExact ==
    /\ Threshold = FlushedUpTo
    /\ ForcedFlushReturned => Threshold = message_counter

\* C13 as amended: _safe_flush_threshold() is the least flush watermark of the
\* streams that have received records; it lies in 0..message_counter and is
\* below the number of every record still held in a registered buffer; right
\* after a successful forced flush it is the least add watermark of the
\* streams that have received records, which is message_counter when at most
\* one stream has.
C13_ThresholdConservative ==
    /\ Threshold \in 0..message_counter
    /\ Threshold = MinOrZero({stream_flush_watermarks[s] : s \in streams_added_to})
    /\ \A s \in DOMAIN streams : \A n \in streams[s] : Threshold < n
    /\ ForcedFlushReturned =>
        /\ Threshold = MinOrZero({stream_add_watermarks[s] : s \in streams_added_to})
        /\ Cardinality(streams_added_to) <= 1 => Threshold = message_counter

\* A forced flush returned with both streams written and the threshold left
\* below message_counter.
C13_Witness ==
    /\ ForcedFlushReturned
    /\ Cardinality(streams_added_to) = 2
    /\ Threshold > 0
    /\ Threshold < message_counter
    /\ written = 1..message_counter

\* The step registers a stream that is already registered.
ReRegisters == call'.op = "register_stream" /\ call'.stream \in DOMAIN streams

\* C14 as claimed: registering a stream again leaves its add watermark and its
\* flush watermark as they were, and so _safe_flush_threshold().
C14_ReRegistrationPreservesWatermarks ==
    [][ReRegisters
        => /\ stream_add_watermarks' = stream_add_watermarks
           /\ stream_flush_watermarks' = stream_flush_watermarks
           /\ Threshold' = Threshold]_vars

\* C14 as amended: registering a stream again leaves the add watermarks as
\* they were and sets that stream's flush watermark to 0, the others staying;
\* _safe_flush_threshold() becomes 0 if the stream has received records and
\* is unchanged otherwise.
C14_ReRegistrationResetsFlushWatermark ==
    [][ReRegisters
        => /\ stream_add_watermarks' = stream_add_watermarks
           /\ stream_flush_watermarks' =
                [stream_flush_watermarks EXCEPT ![call'.stream] = 0]
           /\ Threshold' = IF call'.stream \in streams_added_to
                           THEN 0 ELSE Threshold]_vars

\* A stream whose records had been flushed was registered again.
C14_Witness ==
    /\ call.op = "register_stream"
    /\ streams_added_to = {call.stream}
    /\ written # {}
    /\ stream_add_watermarks[call.stream] > 0
    /\ stream_flush_watermarks[call.stream] = 0

\* C15: after a pass that removes entries, last_emitted_state is the payload
\* of the last entry removed, whatever the payload; and a line is written
\* exactly when that payload differs from the previous last_emitted_state.
C15_LastEmittedTracksChosen ==
    [][call'.popped # <<>>
        => /\ last_emitted_state' = Last(call'.popped).state
           /\ (stdout' # stdout) <=>
                ~SameAsLastEmitted(Last(call'.popped).state, last_emitted_state)]_vars

\* C16: for every registered stream, 0 <= flush watermark <= add watermark
\* (0 when the stream has received no record) <= message_counter; and
\* message_counter never decreases.
C16_WatermarkOrdering ==
    /\ [](\A s \in DOMAIN streams :
            /\ 0 <= stream_flush_watermarks[s]
            /\ stream_flush_watermarks[s] <= DictGet(stream_add_watermarks, s, 0)
            /\ DictGet(stream_add_watermarks, s, 0) <= message_counter)
    /\ [][message_counter' >= message_counter]_vars

\* A stream was flushed and then received a record, before a record of the
\* other stream: 0 < flush watermark < add watermark < message_counter.
C16_Witness ==
    \E s \in streams_added_to :
        /\ 0 < stream_flush_watermarks[s]
        /\ stream_flush_watermarks[s] < stream_add_watermarks[s]
        /\ stream_add_watermarks[s] < message_counter

QueueWorkedOn ==
    IF Len(arrived') > Len(arrived)
    THEN Append(state_queue, [state |-> Last(arrived'), watermark |-> message_counter])
    ELSE state_queue

\* C18: a call removes a prefix of the queue and leaves the rest in place
\* (an entry leaves once and never comes back); the entries removed over the
\* run are the checkpoints in arrival order, and the payload a pass chooses is
\* that of the latest arrival removed, so the chosen payloads are a
\* subsequence of the arrivals.
C18_EmissionInArrivalOrder ==
    [][/\ QueueWorkedOn = call'.popped \o state_queue'
       /\ SubSeq(arrived', 1, Len(arrived)) = arrived
       /\ PoppedCount' = PoppedCount + Len(call'.popped)
       /\ \A i \in 1..Len(call'.popped) :
            call'.popped[i].state = arrived'[PoppedCount + i]
       /\ call'.popped # <<>> => call'.emittable_state = arrived'[PoppedCount']]_vars

\* After a pass had removed an earlier checkpoint, a pass removed one that
\* arrived after a record and carries a different payload.
C18_Witness ==
    /\ call.popped # <<>>
    /\ PoppedCount > Len(call.popped)
    /\ Last(call.popped).watermark > 0
    /\ call.emittable_state # arrived[PoppedCount - Len(call.popped)]

\* ------------------------------------------- flushing after every line
\* The dispatch loop that feeds the tracker one input line at a time (SCHEMA:
\* register_stream, RECORD: handle_record_message, STATE:
\* handle_state_message) and calls flush_streams_if_required() after each
\* line; an exception ends the run.

\* The max_watermark_lag values of the trackers fed by the dispatch loop.
TightLagArgs == {0, 1}

InitFlushAfterEveryLine ==
    /\ emit_states \in BOOLEAN
    /\ max_watermark_lag \in TightLagArgs
    /\ streams = NoStreams
    /\ stream_add_watermarks = NoStreams
    /\ stream_flush_watermarks = NoStreams
    /\ streams_added_to = {}
    /\ state_queue = <<>>
    /\ message_counter = 0
    /\ last_emitted_state = PyNone
    /\ stdout = <<>>
    /\ written = {}
    /\ arrived = <<>>
    /\ call = NoCall
    /\ state_tracker = older__init__

\* The loop is about to read a line: it has just started, or its latest
\* flush_streams_if_required call returned.
ReadsLine ==
    /\ call.op \in {"init", "flush_streams_if_required"}
    /\ call.raised = ""

\* The loop has handled a line and is about to call flush_streams_if_required.
HandledLine ==
    /\ call.op \in {"register_stream", "handle_record_message",
                    "handle_state_message"}
    /\ call.raised = ""

NextFlushAfterEveryLine ==
    \/ ReadsLine /\ UNCHANGED state_tracker
                 /\ \E stream \in StreamNames, same \in BOOLEAN :
                        register_stream(stream, same)
    \/ ReadsLine /\ UNCHANGED state_tracker
                 /\ \E stream \in StreamNames : handle_record_message(stream)
    \/ ReadsLine /\ UNCHANGED state_tracker
                 /\ \E value \in StateValues : handle_state_message(value)
    \/ HandledLine /\ UNCHANGED state_tracker
                   /\ \E buffer_full \in SUBSET StreamNames :
                        flush_streams_if_required(FALSE, buffer_full)

SpecFlushAfterEveryLine ==
    InitFlushAfterEveryLine /\ [][NextFlushAfterEveryLine]_vars

\* The latest call is a flush_streams_if_required that returned.
FlushIfRequiredReturned ==
    call.op = "flush_streams_if_required" /\ call.raised = ""

\* C19 as claimed: once flush_streams_if_required has returned, the queue is
\* empty or the lag is <= max_watermark_lag; and, flush_streams_if_required
\* being called after every line, a checkpoint is never in the queue while
\* the lag exceeds max_watermark_lag + 1.
C19_LagBoundedWhilePending ==
    /\ FlushIfRequiredReturned => (state_queue = <<>> \/ ~LagExceeded)
    /\ state_queue # <<>> =>
            message_counter - Threshold <= max_watermark_lag + 1

\* C19 as amended: once flush_streams_if_required has returned, the queue is
\* empty or the lag is <= max_watermark_lag; between two such calls the lag of
\* a queued checkpoint is not bounded, and a call that starts with a
\* checkpoint queued and the lag above max_watermark_lag returns with the
\* queue empty.
C19_LagBoundedAfterFlush ==
    /\ [](FlushIfRequiredReturned => (state_queue = <<>> \/ ~LagExceeded))
    /\ [][(call'.op = "flush_streams_if_required" /\ call'.raised = ""
           /\ state_queue # <<>> /\ LagExceeded)
            => state_queue' = <<>>]_vars

\* flush_streams_if_required returned leaving a checkpoint queued with the
\* lag at max_watermark_lag.
C19_Witness ==
    /\ FlushIfRequiredReturned
    /\ ~call.lag_forced
    /\ state_queue # <<>>
    /\ max_watermark_lag > 0
    /\ message_counter - Threshold = max_watermark_lag

\* -------------------------------------------- the two trackers side by side
\* Both trackers are built with the same arguments and given the same calls
\* (flush_streams(force) on the older one for flush_streams_if_required(force)),
\* their buffers reporting the same buffer_full and write_batch behaving alike
\* for both; an exception ends the run.  The calls are those in which the lag
\* guard does not fire and, when the call runs an emission pass, every
\* registered stream has received a record.

\* No call has raised.
RunContinues == call.raised = ""

\* Every registered stream has received a record.
NoDormantStream == DOMAIN streams \subseteq streams_added_to

NextSideBySide ==
    \/ /\ RunContinues
       /\ \E stream \in StreamNames, same \in BOOLEAN :
            /\ register_stream(stream, same)
            /\ state_tracker' = older_register_stream(state_tracker, stream, same)
    \/ /\ RunContinues
       /\ \E stream \in StreamNames :
            /\ handle_record_message(stream)
            /\ state_tracker' = older_handle_record_message(state_tracker, stream)
    \/ /\ RunContinues
       /\ emit_states => NoDormantStream
       /\ \E value \in StateValues :
            /\ handle_state_message(value)
            /\ state_tracker' =
                  older_handle_state_message(state_tracker, emit_states, value)
    \/ /\ RunContinues
       /\ \E force \in BOOLEAN, buffer_full \in SUBSET StreamNames :
            /\ force \/ ~LagGuard
            /\ flush_streams_if_required(force, buffer_full)
            /\ call'.raised = "" => NoDormantStream
            /\ state_tracker' =
                  older_flush_streams(state_tracker, force, buffer_full,
                                      call'.write_ok, call'.write_failed)

SpecSideBySide == Init /\ [][NextSideBySide]_vars

\* The older tracker's queue, its <<state, counter>> tuples written as the
\* entries of the newer tracker's queue.
older_state_queue ==
    [i \in 1..Len(state_tracker.state_queue) |->
        [state |-> state_tracker.state_queue[i][1],
         watermark |-> state_tracker.state_queue[i][2]]]

\* The two trackers have equal queues, equal last emitted payloads and have
\* written the same lines.
TrackersAgree ==
    /\ Len(state_tracker.state_queue) = Len(state_queue)
    /\ \A i \in 1..Len(state_queue) : older_state_queue[i] = state_queue[i]
    /\ state_tracker.last_emitted_state = last_emitted_state
    /\ state_tracker.stdout = stdout

\* The two trackers have the same streams, counters and watermarks (a missing
\* add watermark of the newer one counting as 0).
WatermarksAgree ==
    /\ DOMAIN state_tracker.streams = DOMAIN streams
    /\ state_tracker.message_counter = message_counter
    /\ \A s \in DOMAIN streams :
        /\ state_tracker.stream_add_watermarks[s] = DictGet(stream_add_watermarks, s, 0)
        /\ state_tracker.stream_flush_watermarks[s] = stream_flush_watermarks[s]

\* C20 as claimed: run side by side on calls in which the lag guard does not
\* fire and no pass runs while a registered stream has received no record,
\* the two trackers keep equal queues and last emitted payloads and write the
\* same lines.
C20_TrackersAgree == TrackersAgree

\* C20 as amended: the two trackers start in agreement, and every such call
\* that is not the registration of a stream that has received records takes
\* trackers that agree (and have equal watermarks) to trackers that agree.
C20_TrackersAgreeUnlessReRegistered ==
    /\ TrackersAgree /\ WatermarksAgree
    /\ [][(TrackersAgree /\ WatermarksAgree /\ ~ReRegistersActiveStream)
            => (TrackersAgree' /\ WatermarksAgree')]_vars

\* Both trackers released a checkpoint that had waited for a record to be
\* flushed, and wrote its line.
C20_Witness ==
    /\ call.op = "flush_streams_if_required"
    /\ call.lines # <<>>
    /\ Last(call.popped).watermark > 0
    /\ ~call.force
    /\ TrackersAgree /\ WatermarksAgree
    /\ state_tracker.stdout # <<>>

====
